---- MODULE Spec2Model ----
(***************************************************************************)
(* A model of tools/isobuild/meteor-npm.js: the reconciliation of a        *)
(* package's .npm directory with its Npm.depends manifest.                 *)
(*                                                                         *)
(* JavaScript objects are ordered maps: a sequence of <<key, value>> pairs *)
(* with distinct keys, in insertion order.  A JSON file is modelled by the *)
(* ordered JSON value its text denotes (JSON.stringify(v, null, 2) and     *)
(* JSON.parse are inverse on such values, and stringify drops the keys     *)
(* whose value is undefined).  An optional value (a file that may be       *)
(* missing) is a sequence of length 0 or 1.                                *)
(***************************************************************************)
EXTENDS Integers, Sequences, FiniteSets, TLC

\* ------------------------------------------------------------------------
\* JavaScript values

Undefined == "<undefined>"

None == << >>

Some(x) == << x >>

Keys(obj) == { obj[i][1] : i \in DOMAIN obj }

Has(obj, key) == key \in Keys(obj)

\* obj[key]: the value stored under key, undefined when there is none.
Get(obj, key) ==
  IF Has(obj, key)
    THEN obj[CHOOSE i \in DOMAIN obj : obj[i][1] = key][2]
    ELSE Undefined

\* ------------------------------------------------------------------------
\* The strings the model distinguishes

DefaultRegistryTarball == "https://registry.npmjs.org/pkg/-/pkg-1.0.0.tgz"

ShaTarball == "https://github.com/o/r/tarball/0123456789abcdef0123456789abcdef01234567"

\* utils.isUrlWithSha: an http(s) URL that carries a 40-digit hex hash.
isUrlWithSha(x) == x \in {ShaTarball}

\* module.resolved.match(/^https:\/\/registry.npmjs.org\//)
matchesDefaultRegistry(x) == x \in {DefaultRegistryTarball}

\* ------------------------------------------------------------------------
\* Pure functions on dependency trees

canonicalVersion(depObj) ==
  IF isUrlWithSha(Get(depObj, "from"))
    THEN Get(depObj, "from")
    ELSE Get(depObj, "version")

\* _.object(_.map(tree.dependencies, (properties, name) =>
\*   [name, canonicalVersion(properties)]))
treeToDependencies(tree) ==
  IF Has(tree, "dependencies")
    THEN LET deps == Get(tree, "dependencies")
         IN  [i \in DOMAIN deps |-> <<deps[i][1], canonicalVersion(deps[i][2])>>]
    ELSE << >>

moduleVersion(module) ==
  IF Has(module, "resolved") /\ ~ matchesDefaultRegistry(Get(module, "resolved"))
    THEN Get(module, "resolved")
    ELSE IF isUrlWithSha(Get(module, "from"))
      THEN Get(module, "from")
      ELSE Get(module, "version")

\* A minimizeModule that hands the module back as it is
minimizeModuleKeepingFields(module) == module

\* A minimizeModule that does not descend into the dependencies
minimizeModuleFlat(module) == << <<"version", module[1][2]>> >>

RECURSIVE minimizeModule(_)
minimizeModule(module) ==
  LET minimized == << <<"version", moduleVersion(module)>> >>
  IN  IF Has(module, "dependencies")
        THEN LET deps == Get(module, "dependencies")
             IN  Append(minimized,
                   <<"dependencies",
                     [i \in DOMAIN deps |-> <<deps[i][1], minimizeModule(deps[i][2])>>]>>)
        ELSE minimized

minimizeDependencyTree(tree) ==
  LET deps == IF Has(tree, "dependencies") THEN Get(tree, "dependencies") ELSE << >>
  IN  << <<"dependencies",
           [i \in DOMAIN deps |-> <<deps[i][1], minimizeModule(deps[i][2])>>]>> >>

\* JSON.stringify of a lock-tree module: a key whose value is undefined is
\* not written.
RECURSIVE stringifyModule(_)
stringifyModule(module) ==
  LET kept == SelectSeq(module, LAMBDA p : p[1] = "dependencies" \/ p[2] # Undefined)
  IN  [i \in DOMAIN kept |->
        IF kept[i][1] = "dependencies"
          THEN <<"dependencies",
                 [j \in DOMAIN kept[i][2] |->
                    <<kept[i][2][j][1], stringifyModule(kept[i][2][j][2])>>]>>
          ELSE kept[i]]

\* JSON.stringify(minimized, null, 2) + '\n'
stringifyTree(tree) == stringifyModule(tree)

\* ------------------------------------------------------------------------
\* Bounds of the model

\* Largest number of entries of a manifest passed to updateDependencies.
MaxDeps == 2

\* Number of distinct values utils.randomToken() can return.
NumTokens == 2

\* Largest number of calls of updateDependencies in one behaviour.
MaxCalls == 2

\* Largest number of changes made to the directory from outside the tool
\* (a user, version control) in one behaviour.
MaxTampers == 1

\* Largest number of sub-dependencies of a node of an installer tree.
MaxKids == 1

\* ------------------------------------------------------------------------
\* The program's state

VARIABLES
  platform,               \* process.platform
  dir,                    \* what is on disk at packageNpmDir
  tempDirs,               \* tokens t with packageNpmDir-temp-t on disk
  tempContents,           \* what is on disk at packageNpmDir-temp-t, for each such t
  tmpDirs,                \* var tmpDirs: the registry swept by the exit hook
  pc,                     \* position of the process
  npmDependencies,        \* the argument of the call in progress
  tempPackageNpmDir,      \* the rename target of the call in progress
  path,                   \* branch taken at line 78
  nodeModulesDirExisted,  \* const nodeModulesDirExisted
  tree,                   \* what getInstalledDependenciesTree returned
  installed,              \* const installed
  cmds,                   \* argument lists passed to runNpmCommand in this call
  probes,                 \* calls of httpHelpers.getUrl in this call
  errors,                 \* messages given to buildmessage.error in this call
  failedAt,               \* the step that threw NpmFailure in this call
  passed,                 \* the steps that succeeded in this call
  result,                 \* how the call ended
  preDir,                 \* dir when the call began
  lastOk,                 \* manifest of the last call that returned true, if
                          \* nothing touched the directory since
  repeat,                 \* the call in progress repeats lastOk
  tampers,                \* changes from outside so far
  calls,                  \* calls of updateDependencies so far
  runTree,                \* two runs of the installer: npm-shrinkwrap.json as written by npm
  runDeps,                \* per run, what getInstalledDependencies computed
  runLock,                \* per run, npm-shrinkwrap.json as rewritten by minimizeShrinkwrap
  runRelock,              \* per run, that file as minimizeShrinkwrap rewrites it again
  scanDir,                \* what files.readdir gives under node_modules, all the way down
  scanResult              \* what dependenciesArePortable returned, and the entries it looked at

callVars == <<npmDependencies, tempPackageNpmDir, path, nodeModulesDirExisted,
              tree, installed, cmds, probes, errors, failedAt, passed, result,
              preDir, repeat>>

treeVars == <<runTree, runDeps, runLock, runRelock>>

scanVars == <<scanDir, scanResult>>

vars == <<platform, dir, tempDirs, tempContents, tmpDirs, pc, callVars, lastOk, tampers, calls, treeVars, scanVars>>

Names == {"a", "b"}

\* The order in which npm writes the keys of a dependencies object.
NameOrder == <<"a", "b">>

Specifiers == {"1.0.0", "2.x", ShaTarball}

Tokens == 1..NumTokens

packageName == "pkg"

\* Ordered maps over the given keys and values with at most n entries.
RECURSIVE ObjsUpTo(_, _, _)
ObjsUpTo(keys, values, n) ==
  IF n = 0
    THEN { << >> }
    ELSE LET shorter == ObjsUpTo(keys, values, n - 1)
         IN  shorter \cup
             { Append(o, <<k, v>>) :
                 o \in { s \in shorter : Len(s) = n - 1 },
                 k \in keys, v \in values }

DistinctKeys(obj) == \A i, j \in DOMAIN obj : obj[i][1] = obj[j][1] => i = j

Manifests ==
  { m \in ObjsUpTo(Names, Specifiers, MaxDeps) :
      /\ DistinctKeys(m)
      /\ \A i \in DOMAIN m : m[i][1] = "a" => m[i][2] # "2.x"
      /\ \A i \in DOMAIN m : m[i][1] = "b" => m[i][2] = "2.x" }

\* The stamps of node_modules/.node_version
processVersion == <<"v4", "4", "7">>

\* version.replace(/\.(\d+)$/, '.*') + '\n'
currentNodeCompatibilityVersion ==
  Append([i \in DOMAIN processVersion |->
            IF i = Len(processVersion) THEN "*" ELSE processVersion[i]], "\n")

\* oldNodeVersion = 'v0.8.24' when the stamp is missing
DefaultOldNodeVersion == <<"v0", "8", "24">>

\* A stamp left by a tool that ran under Node 0.10
StaleStamp == <<"v0", "10", "*", "\n">>

\* ------------------------------------------------------------------------
\* The directory on disk

AbsentDir ==
  [ kind          |-> "absent",  \* absent, file (not a directory), dir
    shrinkwrap    |-> None,      \* npm-shrinkwrap.json
    packageJson   |-> None,      \* package.json
    readme        |-> FALSE,     \* README
    gitignore     |-> FALSE,     \* .gitignore
    stray         |-> FALSE,     \* a file the tool never writes
    nodeModules   |-> FALSE,     \* node_modules/
    nmPackageJson |-> None,      \* node_modules/.package.json
    nmShrinkwrap  |-> None,      \* node_modules/.npm-shrinkwrap.json
    nmNodeVersion |-> None,      \* node_modules/.node_version
    installed     |-> << >>,     \* node_modules/<name>: name -> installed module
    colons        |-> 0 ]        \* paths under node_modules with a colon

PlainFile == [AbsentDir EXCEPT !.kind = "file"]

\* files.exists(packageNpmDir)
exists(d) == d.kind # "absent"

\* files.exists(files.pathJoin(packageNpmDir, 'npm-shrinkwrap.json'))
existsShrinkwrap(d) == d.kind = "dir" /\ d.shrinkwrap # None

\* files.exists(nodeModulesDir)
existsNodeModules(d) == d.kind = "dir" /\ d.nodeModules

\* files.rm_recursive(nodeModulesDir)
rmNodeModules(d) ==
  [d EXCEPT !.nodeModules = FALSE, !.nmPackageJson = None, !.nmShrinkwrap = None,
            !.nmNodeVersion = None, !.installed = << >>, !.colons = 0]

\* ------------------------------------------------------------------------
\* Initial state: a process that has just loaded the module

NoCall ==
  /\ npmDependencies = None
  /\ tempPackageNpmDir = None
  /\ path = "none"
  /\ nodeModulesDirExisted = FALSE
  /\ tree = None
  /\ installed = << >>
  /\ cmds = << >>
  /\ probes = 0
  /\ errors = << >>
  /\ failedAt = "none"
  /\ passed = {}
  /\ result = "none"
  /\ preDir = AbsentDir
  /\ repeat = FALSE

\* The locals of a call that has returned are gone.
forgetCall ==
  /\ npmDependencies' = None
  /\ tempPackageNpmDir' = None
  /\ path' = "none"
  /\ nodeModulesDirExisted' = FALSE
  /\ tree' = None
  /\ installed' = << >>
  /\ cmds' = << >>
  /\ probes' = 0
  /\ errors' = << >>
  /\ failedAt' = "none"
  /\ passed' = {}
  /\ result' = "none"
  /\ preDir' = AbsentDir
  /\ repeat' = FALSE

NoScan ==
  /\ scanDir = << >>
  /\ scanResult = None

NoTrees ==
  /\ runTree = << >>
  /\ runDeps = << >>
  /\ runLock = << >>
  /\ runRelock = << >>

Init ==
  /\ platform \in {"linux", "win32"}
  /\ dir = AbsentDir
  /\ tempDirs = {}
  /\ tempContents = [t \in {} |-> AbsentDir]
  /\ tmpDirs = << >>
  /\ pc = "idle"
  /\ NoCall
  /\ lastOk = None
  /\ tampers = 0
  /\ calls = 0
  /\ NoTrees
  /\ NoScan

\* ------------------------------------------------------------------------
\* updateDependencies: the call and the empty-manifest path

\* ! npmDependencies || _.isEmpty(npmDependencies)
isEmptyManifest(arg) == arg = None \/ arg[1] = << >>

updateDependencies(arg) ==
  /\ pc = "idle"
  /\ calls < MaxCalls
  /\ npmDependencies' = arg
  /\ tempPackageNpmDir' = None
  /\ path' = "none"
  /\ nodeModulesDirExisted' = FALSE
  /\ tree' = None
  /\ installed' = << >>
  /\ cmds' = << >>
  /\ probes' = 0
  /\ errors' = << >>
  /\ failedAt' = "none"
  /\ passed' = {}
  /\ result' = "none"
  /\ preDir' = dir
  /\ repeat' = (~ isEmptyManifest(arg) /\ lastOk = arg)
  /\ pc' = IF isEmptyManifest(arg) THEN "rename" ELSE "checkLock"
  /\ calls' = calls + 1
  /\ UNCHANGED <<platform, dir, tempDirs, tempContents, tmpDirs, lastOk, tampers, treeVars, scanVars>>

\* A rename that leaves the directory where it is
renamedAwayLeftBehind(d) == d

\* A removal that starts under the real name
renamedAwayInPieces(d) == rmNodeModules(d)

\* what is at packageNpmDir after files.rename(packageNpmDir, tempPackageNpmDir)
renamedAway(d) == AbsentDir

\* files.rename(packageNpmDir, tempPackageNpmDir), ENOENT caught
RenameAway ==
  /\ pc = "rename"
  /\ \E token \in Tokens \ tempDirs :
       IF exists(dir)
         THEN /\ tempDirs' = tempDirs \cup {token}
              /\ tempContents' = [t \in tempDirs \cup {token} |->
                                   IF t = token THEN dir ELSE tempContents[t]]
              /\ tempPackageNpmDir' = Some(token)
              /\ dir' = renamedAway(dir)
              /\ pc' = "rmTemp"
              /\ UNCHANGED result
         ELSE /\ result' = "false"
              /\ pc' = "done"
              /\ tempPackageNpmDir' = Some(token)
              /\ UNCHANGED <<dir, tempDirs, tempContents>>
  /\ UNCHANGED <<platform, tmpDirs, npmDependencies, path, nodeModulesDirExisted,
                 tree, installed, cmds, probes, errors, failedAt, passed, preDir, repeat,
                 lastOk, tampers, calls, treeVars, scanVars>>

\* files.rm_recursive(tempPackageNpmDir); return false.  The deletion goes
\* bottom up: node_modules first when there is one, then the rest and the
\* directory itself.
RmTemp ==
  /\ pc = "rmTemp"
  /\ LET token == tempPackageNpmDir[1]
     IN  IF existsNodeModules(tempContents[token])
           THEN /\ tempContents' = [tempContents EXCEPT ![token] = rmNodeModules(@)]
                /\ UNCHANGED <<tempDirs, result, pc>>
           ELSE /\ tempDirs' = tempDirs \ {token}
                /\ tempContents' = [t \in tempDirs \ {token} |-> tempContents[t]]
                /\ result' = "false"
                /\ pc' = "done"
  /\ UNCHANGED <<platform, dir, tmpDirs, npmDependencies, tempPackageNpmDir, path,
                 nodeModulesDirExisted, tree, installed, cmds, probes, errors,
                 failedAt, passed, preDir, repeat, lastOk, tampers, calls, treeVars, scanVars>>

\* ------------------------------------------------------------------------
\* How a step of a call ends

goto(next) ==
  /\ pc' = next
  /\ UNCHANGED <<errors, failedAt, passed, result>>

\* the step succeeded; the call goes on at next
pass(step, next) ==
  /\ pc' = next
  /\ passed' = passed \cup {step}
  /\ UNCHANGED <<errors, failedAt, result>>

\* An NpmFailure that the catch at line 91 does not recognise
throwNpmFailureUncaught(step, message) ==
  /\ errors' = Append(errors, message)
  /\ failedAt' = step
  /\ result' = "throw"
  /\ pc' = "done"
  /\ UNCHANGED passed

\* buildmessage.error(message); throw new NpmFailure -- caught at line 91,
\* where updateDependencies returns false
throwNpmFailure(step, message) ==
  /\ errors' = Append(errors, message)
  /\ failedAt' = step
  /\ result' = "false"
  /\ pc' = "done"
  /\ UNCHANGED passed

\* any other exception: line 99 lets it propagate
throwError ==
  /\ result' = "throw"
  /\ pc' = "done"
  /\ UNCHANGED <<errors, failedAt, passed>>

manifest == npmDependencies[1]

\* ------------------------------------------------------------------------
\* updateDependencies, lines 64-89, and updateExistingNpmDirectory's checks

\* A lock check that deletes nothing
afterLockCheckKeeping(d) == d

\* lines 73-76
afterLockCheck(d) == IF exists(d) /\ ~ existsShrinkwrap(d) THEN AbsentDir ELSE d

CheckLockArtifact ==
  /\ pc = "checkLock"
  /\ LET kept == afterLockCheck(dir)
     IN  /\ dir' = kept
         /\ path' = IF exists(kept) THEN "existing" ELSE "fresh"
         /\ pc' = IF exists(kept) THEN "sanity" ELSE "mkdir"
  /\ UNCHANGED <<platform, tempDirs, tempContents, tmpDirs, npmDependencies, tempPackageNpmDir,
                 nodeModulesDirExisted, tree, installed, cmds, probes, errors,
                 failedAt, passed, result, preDir, repeat, lastOk, tampers, calls, treeVars, scanVars>>

\* lines 149-165
oldNodeVersion(d) ==
  IF d.nmNodeVersion # None THEN d.nmNodeVersion[1] ELSE DefaultOldNodeVersion

\* A version check that deletes nothing
afterNodeVersionCheckKeeping(d) == d

afterNodeVersionCheck(d) ==
  IF existsNodeModules(d) /\ oldNodeVersion(d) # currentNodeCompatibilityVersion
    THEN rmNodeModules(d)
    ELSE d

\* lines 170-176
afterMetadataCheck(d) ==
  IF existsNodeModules(d) /\ (d.nmPackageJson = None \/ d.nmShrinkwrap = None)
    THEN rmNodeModules(d)
    ELSE d

\* updateExistingNpmDirectory, lines 137-176
CheckExistingNpmDirectory ==
  /\ pc = "sanity"
  /\ IF dir.kind # "dir" \/ ~ existsShrinkwrap(dir)
       THEN /\ throwError
            /\ UNCHANGED <<dir, nodeModulesDirExisted>>
       ELSE /\ dir' = afterMetadataCheck(afterNodeVersionCheck(dir))
            /\ nodeModulesDirExisted' =
                 existsNodeModules(afterMetadataCheck(afterNodeVersionCheck(dir)))
            /\ goto("mkdir")
  /\ UNCHANGED <<platform, tempDirs, tempContents, tmpDirs, npmDependencies, tempPackageNpmDir,
                 path, tree, installed, cmds, probes,
                 preDir, repeat, lastOk, tampers, calls, treeVars, scanVars>>

\* ------------------------------------------------------------------------
\* installNpmModules

\* colonConverter.convert(packageName): the package name has no colon here
packageJsonContents(deps) ==
  << <<"name", "packages-for-meteor-" \o packageName>>,
     <<"version", "0.0.0">>,
     <<"dependencies", deps>> >>

\* files.mkdir_p(files.pathJoin(packageNpmDir, "node_modules"))
mkdirNodeModules(d) == [d EXCEPT !.kind = "dir", !.nodeModules = TRUE]

\* constructPackageJson writes package.json
writePackageJson(d, deps) == [d EXCEPT !.packageJson = Some(packageJsonContents(deps))]

\* An installNpmModules that lists what is installed without probing
afterPrepareListing == "ls"

\* line 423: ensureConnected() comes next
afterPrepare == "connect"

\* installNpmModules, lines 419-421
PrepareInstall ==
  /\ pc = "mkdir"
  /\ IF dir.kind = "file"
       THEN /\ throwError
            /\ UNCHANGED dir
       ELSE /\ dir' = writePackageJson(mkdirNodeModules(dir), manifest)
            /\ goto(afterPrepare)
  /\ UNCHANGED <<platform, tempDirs, tempContents, tmpDirs, npmDependencies, tempPackageNpmDir,
                 path, nodeModulesDirExisted, tree, installed, cmds, probes,
                 preDir, repeat, lastOk, tampers, calls, treeVars, scanVars>>

ensureConnected ==
  /\ pc = "connect"
  /\ probes' = probes + 1
  /\ \E reachable \in BOOLEAN :
       IF reachable
         THEN pass("connect", "ls")
         ELSE throwNpmFailure("connect", "Can't install npm dependencies")
  /\ UNCHANGED <<platform, dir, tempDirs, tempContents, tmpDirs, npmDependencies, tempPackageNpmDir,
                 path, nodeModulesDirExisted, tree, installed, cmds,
                 preDir, repeat, lastOk, tampers, calls, treeVars, scanVars>>

\* The dependencies object npm prints for what is in node_modules
orderedDeps(mods) ==
  LET present == SelectSeq(NameOrder, LAMBDA n : n \in DOMAIN mods)
  IN  [i \in DOMAIN present |-> <<present[i], mods[present[i]]>>]

\* The tree `npm ls --json` prints and `npm shrinkwrap` writes
npmTree(d) ==
  << <<"name", "packages-for-meteor-" \o packageName>>, <<"version", "0.0.0">> >>
  \o (IF DOMAIN d.installed = {}
        THEN << >>
        ELSE << <<"dependencies", orderedDeps(d.installed)>> >>)

\* What runNpmCommand(["ls", "--json"]) can give: stdout that parses (whatever
\* the exit status), stdout that does not parse with a failed command, stdout
\* that does not parse with a successful command.
LsOutcomes == {"json", "failed", "garbled"}

getInstalledDependencies ==
  /\ pc = "ls"
  /\ cmds' = Append(cmds, <<"ls", "--json">>)
  /\ \E outcome \in LsOutcomes :
       IF outcome = "json"
         THEN /\ tree' = Some(npmTree(dir))
              /\ installed' = treeToDependencies(npmTree(dir))
              /\ pass("ls", "install")
         ELSE /\ UNCHANGED <<tree, installed>>
              /\ IF outcome = "failed"
                   THEN throwNpmFailure("ls", "couldn't read npm version lock information")
                   ELSE throwError
  /\ UNCHANGED <<platform, dir, tempDirs, tempContents, tmpDirs, npmDependencies, tempPackageNpmDir,
                 path, nodeModulesDirExisted, probes,
                 preDir, repeat, lastOk, tampers, calls, treeVars, scanVars>>

\* An install argument that is always name@version
installArgAlwaysNamed(name, version) == name \o "@" \o version

\* utils.isUrlWithSha(version) ? version : (name + "@" + version)
installArg(name, version) ==
  IF isUrlWithSha(version) THEN version ELSE name \o "@" \o version

\* A diff that finds every entry changed
needsInstallAlways(deps, name, version) == TRUE

\* if (installed[name] !== version)
needsInstall(deps, name, version) == Get(deps, name) # version

\* lines 425-433
installArgs(deps, wanted) ==
  LET differing == SelectSeq(wanted, LAMBDA p : needsInstall(deps, p[1], p[2]))
  IN  <<"install">> \o
      [i \in DOMAIN differing |-> installArg(differing[i][1], differing[i][2])]

\* The module the installer puts in node_modules for a specifier; how it
\* reports a tarball is its own choice (variant).
Resolve(specifier, variant) ==
  IF specifier = ShaTarball
    THEN IF variant = 1
           THEN << <<"version", "3.0.0">>, <<"from", ShaTarball>>,
                   <<"resolved", ShaTarball>>,
                   <<"dependencies",
                     << <<"c", << <<"version", "0.1.0">>, <<"from", "c@~0.1.0">>,
                                  <<"resolved", DefaultRegistryTarball>> >> >> >> >> >>
           ELSE << <<"version", "3.0.0">>, <<"from", "r@3.0.0">>,
                   <<"resolved", ShaTarball>> >>
    ELSE IF specifier = "2.x"
      THEN << <<"version", "2.0.0">>, <<"from", "pkg@2.x">>,
              <<"resolved", DefaultRegistryTarball>> >>
      ELSE << <<"version", specifier>>, <<"from", "pkg@" \o specifier>>,
              <<"resolved", DefaultRegistryTarball>> >>

ColonCounts == {0, 2, 10, 12}

\* node_modules after a successful `npm install <args>` in a directory whose
\* package.json declares wanted: every declared package is present, and the
\* ones named in args (or missing) are installed anew.
npmInstall(d, deps, wanted, variant, colons) ==
  LET anew == { n \in Keys(wanted) :
                  needsInstall(deps, n, Get(wanted, n)) \/ n \notin DOMAIN d.installed }
  IN  [d EXCEPT
        !.installed = [n \in DOMAIN d.installed \cup Keys(wanted) |->
                         IF n \in anew THEN Resolve(Get(wanted, n), variant)
                                       ELSE d.installed[n]],
        !.colons = IF anew = {} THEN d.colons ELSE colons]

\* What the installer may do in this state: nothing is chosen where the
\* choice would change nothing.
InstallVariants(d, deps, wanted) ==
  IF \E n \in Keys(wanted) :
       /\ Get(wanted, n) = ShaTarball
       /\ needsInstall(deps, n, ShaTarball) \/ n \notin DOMAIN d.installed
    THEN {1, 2}
    ELSE {1}

InstallColons(d, deps, wanted) ==
  IF \E n \in Keys(wanted) :
       needsInstall(deps, n, Get(wanted, n)) \/ n \notin DOMAIN d.installed
    THEN ColonCounts
    ELSE {d.colons}

\* result.stderr: no error, missingPattern, badVersionPattern, neither
InstallOutcomes == {"ok", "missing", "badVersion", "other"}

installErrorMessage(outcome) ==
  IF outcome = "missing" THEN "there is no npm package named"
  ELSE IF outcome = "badVersion" THEN "is not available in the npm registry"
  ELSE "result.error"

\* An install that is attempted again
afterInstallAgain == "install"

\* line 455: after a successful install comes the colon check
afterInstall == "colons"

Install ==
  /\ pc = "install"
  /\ cmds' = Append(cmds, installArgs(installed, manifest))
  /\ \E outcome \in InstallOutcomes :
       IF outcome = "ok"
         THEN /\ \E variant \in InstallVariants(dir, installed, manifest),
                    colons \in InstallColons(dir, installed, manifest) :
                   dir' = npmInstall(dir, installed, manifest, variant, colons)
              /\ pass("install", afterInstall)
         ELSE /\ UNCHANGED dir
              /\ throwNpmFailure("install", installErrorMessage(outcome))
  /\ UNCHANGED <<platform, tempDirs, tempContents, tmpDirs, npmDependencies, tempPackageNpmDir,
                 path, nodeModulesDirExisted, tree, installed, probes,
                 preDir, repeat, lastOk, tampers, calls, treeVars, scanVars>>

\* files.findPathsWithRegex(".", /:/, {cwd: node_modules}), in its order
pathsWithColons(d) == [i \in 1..d.colons |-> "a/f:" \o ToString(i)]

\* firstTen.join("\n")
RECURSIVE join(_)
join(lines) ==
  IF lines = << >> THEN ""
  ELSE IF Len(lines) = 1 THEN lines[1]
  ELSE lines[1] \o "\n" \o join(Tail(lines))

\* pathsWithColons.slice(0, 10)
SliceLength == 10

\* A report that never mentions what it leaves out
firstTenNoOmitted(paths) ==
  SubSeq(paths, 1, IF Len(paths) < SliceLength THEN Len(paths) ELSE SliceLength)

\* lines 464-468
firstTen(paths) ==
  SubSeq(paths, 1, IF Len(paths) < SliceLength THEN Len(paths) ELSE SliceLength)
  \o (IF Len(paths) > SliceLength
        THEN << "... " \o ToString(Len(paths) - SliceLength) \o " paths omitted." >>
        ELSE << >>)

\* lines 470-473
colonsMessage(paths) ==
  "Some filenames in your package have invalid characters.\n"
  \o "The following file paths have colons, ':', which won't work on Windows:\n"
  \o join(firstTen(paths))

\* lines 455-477
colonCheckFails(os, d) == os # "win32" /\ Len(pathsWithColons(d)) > 0

\* Cleanup passes that run on every path
runsCleanupAlways(branch, existed) == TRUE

\* prune and dedupe run in updateExistingNpmDirectory only, line 180
runsCleanup(branch, existed) == branch = "existing" /\ existed

ColonCheck ==
  /\ pc = "colons"
  /\ IF colonCheckFails(platform, dir)
       THEN throwNpmFailure("colons", colonsMessage(pathsWithColons(dir)))
       ELSE pass("colons",
                 IF runsCleanup(path, nodeModulesDirExisted) THEN "prune" ELSE "shrinkwrap")
  /\ UNCHANGED <<platform, dir, tempDirs, tempContents, tmpDirs, npmDependencies, tempPackageNpmDir,
                 path, nodeModulesDirExisted, tree, installed, cmds, probes,
                 preDir, repeat, lastOk, tampers, calls, treeVars, scanVars>>

\* ------------------------------------------------------------------------
\* updateExistingNpmDirectory, lines 180-199: the cleanup passes

\* node_modules after a successful `npm prune`: what package.json does not
\* declare is removed.
npmPrune(d) ==
  LET declared == Keys(Get(d.packageJson[1], "dependencies"))
  IN  [d EXCEPT !.installed = [n \in DOMAIN d.installed \cap declared |-> d.installed[n]]]

\* A prune whose failure skips dedupe
afterPruneStoppingOnFailure(success) == IF success THEN "dedupe" ELSE "shrinkwrap"

\* where the call goes after `npm prune`, whatever its result
afterPrune(success) == "dedupe"

\* where the call goes after `npm dedupe`, whatever its result
afterDedupe(success) == "shrinkwrap"

Prune ==
  /\ pc = "prune"
  /\ cmds' = Append(cmds, <<"prune">>)
  /\ \E success \in BOOLEAN :
       /\ dir' = IF success THEN npmPrune(dir) ELSE dir
       /\ errors' = IF success THEN errors ELSE Append(errors, "pruneResult")
       /\ pc' = afterPrune(success)
  /\ UNCHANGED <<platform, tempDirs, tempContents, tmpDirs, npmDependencies, tempPackageNpmDir,
                 path, nodeModulesDirExisted, tree, installed, probes, failedAt, passed,
                 result, preDir, repeat, lastOk, tampers, calls, treeVars, scanVars>>

Dedupe ==
  /\ pc = "dedupe"
  /\ cmds' = Append(cmds, <<"dedupe">>)
  /\ \E success \in BOOLEAN :
       /\ errors' = IF success THEN errors ELSE Append(errors, "dedupeResult")
       /\ pc' = afterDedupe(success)
  /\ UNCHANGED <<platform, dir, tempDirs, tempContents, tmpDirs, npmDependencies, tempPackageNpmDir,
                 path, nodeModulesDirExisted, tree, installed, probes, failedAt, passed,
                 result, preDir, repeat, lastOk, tampers, calls, treeVars, scanVars>>

\* ------------------------------------------------------------------------
\* completeNpmDirectory

\* lines 500-506
shrinkwrap ==
  /\ pc = "shrinkwrap"
  /\ cmds' = Append(cmds, <<"shrinkwrap">>)
  /\ \E success \in BOOLEAN :
       IF success
         THEN /\ dir' = [dir EXCEPT !.shrinkwrap = Some(npmTree(dir))]
              /\ pass("shrinkwrap", "minimize")
         ELSE /\ UNCHANGED dir
              /\ throwNpmFailure("shrinkwrap", "couldn't run npm shrinkwrap")
  /\ UNCHANGED <<platform, tempDirs, tempContents, tmpDirs, npmDependencies, tempPackageNpmDir,
                 path, nodeModulesDirExisted, tree, installed, probes,
                 preDir, repeat, lastOk, tampers, calls, treeVars, scanVars>>

\* what minimizeShrinkwrap writes over a npm-shrinkwrap.json holding topLevel
minimizedShrinkwrap(topLevel) == stringifyTree(minimizeDependencyTree(topLevel))

minimizeShrinkwrap ==
  /\ pc = "minimize"
  /\ dir' = [dir EXCEPT !.shrinkwrap = Some(minimizedShrinkwrap(dir.shrinkwrap[1]))]
  /\ pc' = "complete"
  /\ UNCHANGED <<platform, tempDirs, tempContents, tmpDirs, callVars, lastOk, tampers, calls, treeVars, scanVars>>

\* A copy that leaves package.json in place
stowPackageJsonCopying(d) == [d EXCEPT !.nmPackageJson = d.packageJson]

\* files.rename(package.json, node_modules/.package.json)
stowPackageJson(d) == [d EXCEPT !.nmPackageJson = d.packageJson, !.packageJson = None]

\* files.copyFile(npm-shrinkwrap.json, node_modules/.npm-shrinkwrap.json)
stowShrinkwrap(d) == [d EXCEPT !.nmShrinkwrap = d.shrinkwrap]

createReadme(d) == [d EXCEPT !.readme = TRUE]

\* A completion that leaves no stamp
createNodeVersionSkipped(d) == d

createNodeVersion(d) == [d EXCEPT !.nmNodeVersion = Some(currentNodeCompatibilityVersion)]

createGitIgnore(d) == [d EXCEPT !.gitignore = TRUE]

\* completeNpmDirectory after shrinkwrap(), lines 226-237, then line 102:
\* return true
completeNpmDirectory ==
  /\ pc = "complete"
  /\ dir' = createGitIgnore(createNodeVersion(createReadme(
              stowShrinkwrap(stowPackageJson(dir)))))
  /\ result' = "true"
  /\ pc' = "done"
  /\ UNCHANGED <<platform, tempDirs, tempContents, tmpDirs, npmDependencies, tempPackageNpmDir,
                 path, nodeModulesDirExisted, tree, installed, cmds, probes, errors,
                 failedAt, passed, preDir, repeat, lastOk, tampers, calls, treeVars, scanVars>>

\* The caller has the result; the process is free for the next call.
Return ==
  /\ pc = "done"
  /\ pc' = "idle"
  /\ lastOk' = IF result = "true" THEN npmDependencies ELSE None
  /\ forgetCall
  /\ UNCHANGED <<platform, dir, tempDirs, tempContents, tmpDirs, tampers, calls, treeVars, scanVars>>

\* ------------------------------------------------------------------------
\* The process ends (an interrupt at any point): cleanup.onExit, lines 22-27

sweep(registry, onDisk) == onDisk \ { registry[i] : i \in DOMAIN registry }

Exit ==
  /\ pc # "exited"
  /\ tempDirs' = sweep(tmpDirs, tempDirs)
  /\ tempContents' = [t \in sweep(tmpDirs, tempDirs) |-> tempContents[t]]
  /\ pc' = "exited"
  /\ forgetCall
  /\ lastOk' = None
  /\ UNCHANGED <<platform, dir, tmpDirs, tampers, calls, treeVars, scanVars>>

\* ------------------------------------------------------------------------
\* The directory is changed from outside, between calls

TamperKinds ==
  {"rm-lock", "rm-node_modules", "stray-file", "plain-file", "stale-stamp",
   "rm-stamp", "rm-hidden"}

tamperApplies(kind, d) ==
  IF kind = "plain-file" THEN d.kind = "absent"
  ELSE IF kind = "rm-lock" THEN existsShrinkwrap(d)
  ELSE IF kind = "stray-file" THEN d.kind = "dir" /\ ~ d.stray
  ELSE IF kind = "rm-node_modules" THEN existsNodeModules(d)
  ELSE IF kind = "rm-hidden" THEN existsNodeModules(d) /\ d.nmPackageJson # None
  ELSE existsNodeModules(d) /\ d.nmNodeVersion = Some(currentNodeCompatibilityVersion)

tampered(kind, d) ==
  IF kind = "plain-file" THEN PlainFile
  ELSE IF kind = "rm-lock" THEN [d EXCEPT !.shrinkwrap = None]
  ELSE IF kind = "stray-file" THEN [d EXCEPT !.stray = TRUE]
  ELSE IF kind = "rm-node_modules" THEN rmNodeModules(d)
  ELSE IF kind = "rm-hidden" THEN [d EXCEPT !.nmPackageJson = None]
  ELSE IF kind = "stale-stamp" THEN [d EXCEPT !.nmNodeVersion = Some(StaleStamp)]
  ELSE [d EXCEPT !.nmNodeVersion = None]

Tamper ==
  /\ pc = "idle"
  /\ tampers < MaxTampers
  /\ \E kind \in TamperKinds :
       /\ tamperApplies(kind, dir)
       /\ dir' = tampered(kind, dir)
  /\ tampers' = tampers + 1
  /\ lastOk' = None
  /\ UNCHANGED <<platform, tempDirs, tempContents, tmpDirs, pc, callVars, calls, treeVars, scanVars>>

\* ------------------------------------------------------------------------

Call == \E arg \in {None} \cup { Some(m) : m \in Manifests } : updateDependencies(arg)

Next ==
  \/ Call
  \/ RenameAway
  \/ RmTemp
  \/ CheckLockArtifact
  \/ CheckExistingNpmDirectory
  \/ PrepareInstall
  \/ ensureConnected
  \/ getInstalledDependencies
  \/ Install
  \/ ColonCheck
  \/ Prune
  \/ Dedupe
  \/ shrinkwrap
  \/ minimizeShrinkwrap
  \/ completeNpmDirectory
  \/ Return
  \/ Exit
  \/ Tamper

Spec == Init /\ [][Next]_vars

\* ------------------------------------------------------------------------
\* The tree functions on their own: two runs of the installer in the same
\* directory state.  In each run getInstalledDependencies reads the tree and
\* minimizeShrinkwrap rewrites the npm-shrinkwrap.json npm wrote from it.

field(key, value) == IF value = Undefined THEN << >> ELSE << <<key, value>> >>

\* Sub-dependencies as the installer may report them
Kids ==
  { <<"c", << <<"version", "0.1.0">> >> >>,
    <<"c", << <<"version", "0.1.0">>, <<"_id", "c@0.1.0">> >> >>,
    <<"d", << <<"version", "0.2.0">>, <<"resolved", ShaTarball>> >> >> }

RECURSIVE KidSeqs(_)
KidSeqs(n) ==
  IF n = 0
    THEN { << >> }
    ELSE LET shorter == KidSeqs(n - 1)
         IN  shorter \cup
             { Append(ks, k) : ks \in { q \in shorter : Len(q) = n - 1 }, k \in Kids }

DependenciesFields ==
  { << >> } \cup
  { << <<"dependencies", ks>> >> : ks \in { q \in KidSeqs(MaxKids) : DistinctKeys(q) } }

TopNodes ==
  { << <<"version", "1.0.0">> >> \o field("from", f) \o field("resolved", r)
      \o field("_id", e) \o d :
      f \in {Undefined, "a@1.0.0", ShaTarball},
      r \in {Undefined, DefaultRegistryTarball, ShaTarball},
      e \in {Undefined, "a@1.0.0"},
      d \in DependenciesFields }

Trees ==
  { << <<"name", "packages-for-meteor-" \o packageName>>, <<"version", "0.0.0">>,
       <<"dependencies", << <<"a", node>> >> >> >> : node \in TopNodes }

Idle ==
  /\ platform = "linux"
  /\ dir = AbsentDir
  /\ tempDirs = {}
  /\ tempContents = [t \in {} |-> AbsentDir]
  /\ tmpDirs = << >>
  /\ NoCall
  /\ lastOk = None
  /\ tampers = 0
  /\ calls = 0

TreeInit ==
  /\ Idle
  /\ pc = "trees"
  /\ runTree \in Trees \X Trees
  /\ runDeps = <<None, None>>
  /\ runLock = <<None, None>>
  /\ runRelock = <<None, None>>
  /\ NoScan

mainVars == <<platform, dir, tempDirs, tempContents, tmpDirs, pc, callVars, lastOk, tampers, calls>>

RunGetInstalledDependencies(i) ==
  /\ runDeps[i] = None
  /\ runDeps' = [runDeps EXCEPT ![i] = Some(treeToDependencies(runTree[i]))]
  /\ UNCHANGED <<mainVars, scanVars, runTree, runLock, runRelock>>

RunMinimizeShrinkwrap(i) ==
  /\ runDeps[i] # None
  /\ runLock[i] = None
  /\ runLock' = [runLock EXCEPT ![i] = Some(minimizedShrinkwrap(runTree[i]))]
  /\ UNCHANGED <<mainVars, scanVars, runTree, runDeps, runRelock>>

\* minimizeShrinkwrap once more over the npm-shrinkwrap.json it wrote
RunMinimizeShrinkwrapAgain(i) ==
  /\ runLock[i] # None
  /\ runRelock[i] = None
  /\ runRelock' = [runRelock EXCEPT ![i] = Some(minimizedShrinkwrap(runLock[i][1]))]
  /\ UNCHANGED <<mainVars, scanVars, runTree, runDeps, runLock>>

RunList == \E i \in 1..2 : RunGetInstalledDependencies(i)

RunMinimize == \E i \in 1..2 : RunMinimizeShrinkwrap(i)

RunMinimizeAgain == \E i \in 1..2 : RunMinimizeShrinkwrapAgain(i)

TreeNext ==
  \/ RunList
  \/ RunMinimize
  \/ RunMinimizeAgain

TreeSpec == TreeInit /\ [][TreeNext]_vars

\* ------------------------------------------------------------------------
\* dependenciesArePortable, on its own, over bounded node_modules trees.  A
\* directory listing is the sequence files.readdir gives; an entry is a file
\* or a directory with its own listing.

\* entries of one directory
MaxEntries == 2

\* directory levels under node_modules
MaxDepth == 2

FileNames == {"a.node.js", "b.node"}

DirNames == {"lib", "c.node"}

\* itemName.match(/\.node$/)
matchesDotNode(itemName) == itemName \in {"b.node", "c.node"}

DistinctNames(listing) ==
  \A i, j \in DOMAIN listing : listing[i].name = listing[j].name => i = j

RECURSIVE ListingsUpTo(_, _)
ListingsUpTo(items, n) ==
  IF n = 0
    THEN { << >> }
    ELSE LET shorter == ListingsUpTo(items, n - 1)
         IN  shorter \cup
             { Append(l, e) : l \in { q \in shorter : Len(q) = n - 1 }, e \in items }

RECURSIVE Listings(_)
Listings(depth) ==
  IF depth = 0
    THEN { << >> }
    ELSE LET items ==
               { [name |-> f, kind |-> "file", children |-> << >>] : f \in FileNames }
               \cup
               { [name |-> d, kind |-> "dir", children |-> c] :
                   d \in DirNames, c \in Listings(depth - 1) }
         IN  { l \in ListingsUpTo(items, MaxEntries) : DistinctNames(l) }

\* An lstat that never reports a directory
isDirectoryNever(item) == FALSE

\* files.lstat(item).isDirectory()
isDirectory(item) == item.kind = "dir"

\* _.find(files.readdir(dir), ...) || false, from entry i on: whether an
\* entry made the predicate truthy, and the entries the predicate was
\* called on, in order.
RECURSIVE search(_, _, _)
search(listing, i, dirPath) ==
  IF i > Len(listing)
    THEN [hit |-> FALSE, seen |-> << >>]
    ELSE LET item == dirPath \o "/" \o listing[i].name
         IN  IF matchesDotNode(listing[i].name)
               THEN [hit |-> TRUE, seen |-> << item >>]
               ELSE LET inside == IF isDirectory(listing[i])
                                    THEN search(listing[i].children, 1, item)
                                    ELSE [hit |-> FALSE, seen |-> << >>]
                    IN  IF inside.hit
                          THEN [hit |-> TRUE, seen |-> << item >> \o inside.seen]
                          ELSE LET rest == search(listing, i + 1, dirPath)
                               IN  [hit |-> rest.hit,
                                    seen |-> << item >> \o inside.seen \o rest.seen]

PortableInit ==
  /\ Idle
  /\ NoTrees
  /\ pc = "scan"
  /\ scanDir \in Listings(MaxDepth)
  /\ scanResult = None

\* return ! search(files.pathJoin(packageNpmDir, 'node_modules'))
dependenciesArePortable ==
  /\ scanResult = None
  /\ LET found == search(scanDir, 1, "node_modules")
     IN  scanResult' = Some([portable |-> ~ found.hit, examined |-> found.seen])
  /\ UNCHANGED <<mainVars, treeVars, scanDir>>

PortableNext == dependenciesArePortable

PortableSpec == PortableInit /\ [][PortableNext]_vars

\* ------------------------------------------------------------------------
\* Claims

Range(seq) == { seq[i] : i \in DOMAIN seq }

nonEmptyCall == ~ isEmptyManifest(npmDependencies)

\* C1: whenever updateDependencies is called with a non-empty manifest and
\* returns false after a recoverable failure, the dependency directory is
\* what it was before the call.
C1_FailureLeavesDirUnmodified ==
  (pc = "done" /\ nonEmptyCall /\ result = "false" /\ failedAt # "none")
    => dir = preDir

\* C4: a call with an empty or falsy manifest returns false, leaves no
\* directory under the real name whether or not there was one, and invokes
\* neither the installer nor the connectivity probe.
C4_EmptyManifestRemovesDir ==
  (pc = "done" /\ isEmptyManifest(npmDependencies))
    => /\ result = "false"
       /\ dir.kind = "absent"
       /\ cmds = << >>
       /\ probes = 0

C4_Witness ==
  /\ pc = "done"
  /\ isEmptyManifest(npmDependencies)
  /\ preDir.kind = "dir"
  /\ DOMAIN preDir.installed # {}
  /\ result = "false"
  /\ dir.kind = "absent"

\* C10: every temporary directory the empty-manifest path creates is in the
\* tmpDirs registry for as long as it exists, so none survives the exit hook.
C10_TempDirsRegistered ==
  /\ \A token \in tempDirs : token \in Range(tmpDirs)
  /\ pc = "exited" => tempDirs = {}

\* The npm commands of this call whose first argument is command
invocations(command) == { i \in DOMAIN cmds : cmds[i][1] = command }

\* C2 as stated: a call that repeats the manifest of the last successful
\* call, with nothing changed in between, invokes no `npm install`.
C2_RepeatIssuesNoInstall == repeat => invocations("install") = {}

\* C2 as amended: such a call invokes `npm install` at most once; every
\* manifest entry is installed by then, and the command carries no package
\* argument when every entry is installed at its specifier.
C2_RepeatInstallsNothingSettled ==
  repeat =>
    /\ Cardinality(invocations("install")) <= 1
    /\ \A i \in invocations("install") :
         /\ Keys(manifest) \subseteq Keys(installed)
         /\ (\A n \in Keys(manifest) : Get(installed, n) = Get(manifest, n))
              => cmds[i] = <<"install">>

C2_Witness ==
  /\ repeat
  /\ pc = "done"
  /\ result = "true"
  /\ Get(manifest, "a") = "1.0.0"
  /\ invocations("prune") # {}
  /\ \E i \in DOMAIN cmds : cmds[i] = <<"install">>

\* The directory exists and lacks npm-shrinkwrap.json.
lacksLockArtifact(d) == exists(d) /\ ~ existsShrinkwrap(d)

\* C5: when the directory exists without npm-shrinkwrap.json, a call with a
\* non-empty manifest deletes it whole and takes the fresh-creation path: the
\* incremental path with its prune and dedupe passes is not entered and
\* nothing of the old contents is left.
C5_MissingLockArtifactRecreates ==
  (nonEmptyCall /\ pc # "checkLock" /\ lacksLockArtifact(preDir))
    => /\ path = "fresh"
       /\ ~ nodeModulesDirExisted
       /\ invocations("prune") = {} /\ invocations("dedupe") = {}
       /\ tree # None => ~ Has(tree[1], "dependencies")
       /\ ~ dir.stray
       /\ DOMAIN dir.installed \subseteq Keys(manifest)
       /\ dir.packageJson # None => dir.packageJson = Some(packageJsonContents(manifest))
       /\ result # "true" =>
            /\ dir.nmPackageJson = None /\ dir.nmShrinkwrap = None
            /\ dir.nmNodeVersion = None /\ ~ dir.readme /\ ~ dir.gitignore
       /\ pc \in {"mkdir"} => dir = AbsentDir

C5_Witness ==
  /\ nonEmptyCall
  /\ lacksLockArtifact(preDir)
  /\ preDir.stray
  /\ "b" \in DOMAIN preDir.installed
  /\ "b" \notin Keys(manifest)
  /\ pc = "done"
  /\ result = "true"

RecoverableSteps == {"connect", "ls", "install", "colons", "shrinkwrap"}

\* The steps that come before step in a reconcile
stepsBefore(step) ==
  IF step = "connect" THEN {}
  ELSE IF step = "ls" THEN {"connect"}
  ELSE IF step = "install" THEN {"connect", "ls"}
  ELSE IF step = "colons" THEN {"connect", "ls", "install"}
  ELSE {"connect", "ls", "install", "colons"}

\* The npm command a step runs last
commandOf(step) ==
  IF step = "ls" THEN "ls"
  ELSE IF step = "shrinkwrap" THEN "shrinkwrap"
  ELSE "install"

messagesOf(step) ==
  IF step = "connect" THEN {"Can't install npm dependencies"}
  ELSE IF step = "ls" THEN {"couldn't read npm version lock information"}
  ELSE IF step = "install"
    THEN {"there is no npm package named", "is not available in the npm registry",
          "result.error"}
  ELSE IF step = "colons"
    THEN { colonsMessage(pathsWithColons(dir)) }
  ELSE {"couldn't run npm shrinkwrap"}

\* C8: with a non-empty manifest the call returns true exactly when the
\* probe, the listing, the install, the colon check and the shrinkwrap all
\* succeed; a recoverable failure of one of them makes it return false
\* without throwing, after an error message, and no later step runs.
C8_TrueIffAllStepsSucceed ==
  (pc = "done" /\ nonEmptyCall) =>
    /\ result = "true" <=> passed = RecoverableSteps
    /\ failedAt # "none" =>
         /\ result = "false"
         /\ failedAt \in RecoverableSteps
         /\ errors # << >>
         /\ errors[Len(errors)] \in messagesOf(failedAt)
         /\ passed = stepsBefore(failedAt)
         /\ failedAt = "connect" => cmds = << >>
         /\ failedAt # "connect" => cmds[Len(cmds)][1] = commandOf(failedAt)
         /\ dir.packageJson # None
         /\ dir.nmPackageJson = preDir.nmPackageJson \/ dir.nmPackageJson = None
    /\ result = "false" => failedAt # "none"

C8_Witness ==
  /\ pc = "done"
  /\ nonEmptyCall
  /\ result = "false"
  /\ failedAt = "install"
  /\ errors = <<"is not available in the npm registry">>
  /\ passed = {"connect", "ls"}

\* What completeNpmDirectory leaves when it has run to its end
finalized(d) ==
  /\ d.shrinkwrap # None
  /\ d.nmShrinkwrap = d.shrinkwrap
  /\ d.nmPackageJson = Some(packageJsonContents(manifest))
  /\ d.packageJson = None
  /\ d.nmNodeVersion = Some(currentNodeCompatibilityVersion)
  /\ d.readme
  /\ d.gitignore

\* C9: on the incremental path a failed prune, a failed dedupe or both do
\* not block success: when install and shrinkwrap succeed the directory is
\* finalized and the call returns true, and dedupe runs after a failed prune.
C9_CleanupFailuresNotFatal ==
  /\ (pc = "done" /\ invocations("prune") # {} /\ "shrinkwrap" \in passed)
       => result = "true" /\ finalized(dir)
  /\ (invocations("prune") # {} /\ pc # "dedupe")
       => invocations("dedupe") # {}
  /\ \A i \in invocations("prune"), j \in invocations("dedupe") : i < j

C9_Witness ==
  /\ pc = "done"
  /\ result = "true"
  /\ errors = <<"pruneResult", "dedupeResult">>
  /\ finalized(dir)

\* Two modules agree on version, resolved, from and, recursively, on their
\* dependencies (the same names in the same order).
RECURSIVE agreeModules(_, _)
agreeModules(m1, m2) ==
  /\ \A key \in {"version", "resolved", "from"} : Get(m1, key) = Get(m2, key)
  /\ Has(m1, "dependencies") <=> Has(m2, "dependencies")
  /\ Has(m1, "dependencies") =>
       LET d1 == Get(m1, "dependencies")
           d2 == Get(m2, "dependencies")
       IN  /\ Len(d1) = Len(d2)
           /\ \A i \in DOMAIN d1 :
                /\ d1[i][1] = d2[i][1]
                /\ agreeModules(d1[i][2], d2[i][2])

agreeTrees(t1, t2) ==
  LET d1 == Get(t1, "dependencies")
      d2 == Get(t2, "dependencies")
  IN  /\ Len(d1) = Len(d2)
      /\ \A i \in DOMAIN d1 : d1[i][1] = d2[i][1] /\ agreeModules(d1[i][2], d2[i][2])

\* Every module of a written lock tree has no key but version and
\* dependencies.
RECURSIVE onlyLockKeys(_)
onlyLockKeys(module) ==
  /\ Keys(module) \subseteq {"version", "dependencies"}
  /\ Has(module, "dependencies") =>
       \A i \in DOMAIN Get(module, "dependencies") :
         onlyLockKeys(Get(module, "dependencies")[i][2])

\* C3: the npm-shrinkwrap.json that minimizeShrinkwrap writes depends only on
\* the version, resolved and from of every node of the installer's tree and
\* on its dependencies structure: two runs whose trees agree on these write
\* the same file, and no other field of the installer's output is written.
C3_LockDependsOnlyOnVersionFields ==
  /\ (runLock # << >> /\ runLock[1] # None /\ runLock[2] # None
        /\ agreeTrees(runTree[1], runTree[2]))
       => runLock[1] = runLock[2]
  /\ \A i \in DOMAIN runLock :
       runLock[i] # None =>
         /\ Keys(runLock[i][1]) = {"dependencies"}
         /\ \A j \in DOMAIN Get(runLock[i][1], "dependencies") :
              onlyLockKeys(Get(runLock[i][1], "dependencies")[j][2])

C3_Witness ==
  /\ runLock # << >>
  /\ runLock[1] # None
  /\ runLock[2] # None
  /\ agreeTrees(runTree[1], runTree[2])
  /\ runTree[1] # runTree[2]
  /\ Has(Get(runTree[1], "dependencies")[1][2], "_id")
  /\ Has(Get(runTree[1], "dependencies")[1][2], "dependencies")
  /\ runLock[1] = runLock[2]

\* The canonical version of a node by the precedence of the data model: the
\* resolved location when present and not under the default registry, else
\* the from reference when it is a URL with a hash, else the plain version.
precedenceVersion(node) ==
  IF Has(node, "resolved") /\ Get(node, "resolved") # DefaultRegistryTarball
    THEN Get(node, "resolved")
    ELSE IF Get(node, "from") = ShaTarball
      THEN ShaTarball
      ELSE Get(node, "version")

\* C7: for every node of the installed tree the canonical version follows
\* that precedence, and it is the value used both when the tree is diffed
\* against the manifest (canonicalVersion) and when the node is written to
\* the lock tree (minimizeModule).
C7_OneCanonicalVersion ==
  \A i \in DOMAIN runLock :
    (runDeps[i] # None /\ runLock[i] # None) =>
      LET listed == Get(runTree[i], "dependencies")
          locked == Get(runLock[i][1], "dependencies")
      IN  \A j \in DOMAIN listed :
            /\ Get(runDeps[i][1], listed[j][1]) = precedenceVersion(listed[j][2])
            /\ Get(Get(locked, listed[j][1]), "version") = precedenceVersion(listed[j][2])

\* C11: when updateDependencies is called with a non-empty manifest and the
\* path exists but is not a directory, the path is left as it is and the call
\* ends with a propagated error, returning neither true nor false.
C11_NonDirectoryIsFatal ==
  (nonEmptyCall /\ preDir.kind = "file")
    => /\ dir = preDir
       /\ pc = "done" => result = "throw"

\* C12: after a call that returns true the directory holds the minimized
\* npm-shrinkwrap.json, node_modules/.package.json with the manifest of this
\* call, node_modules/.npm-shrinkwrap.json equal to npm-shrinkwrap.json,
\* node_modules/.node_version with the current compatibility version, README
\* and .gitignore, and no package.json.
C12_SuccessLeavesFinalizedDir ==
  (pc = "done" /\ result = "true")
    => /\ dir.kind = "dir"
       /\ dir.nodeModules
       /\ dir.shrinkwrap # None
       /\ Keys(dir.shrinkwrap[1]) = {"dependencies"}
       /\ Keys(Get(dir.shrinkwrap[1], "dependencies")) = DOMAIN dir.installed
       /\ \A i \in DOMAIN Get(dir.shrinkwrap[1], "dependencies") :
            onlyLockKeys(Get(dir.shrinkwrap[1], "dependencies")[i][2])
       /\ dir.nmPackageJson = Some(packageJsonContents(manifest))
       /\ dir.nmShrinkwrap = dir.shrinkwrap
       /\ dir.nmNodeVersion = Some(currentNodeCompatibilityVersion)
       /\ dir.readme
       /\ dir.gitignore
       /\ dir.packageJson = None

C12_Witness ==
  /\ pc = "done"
  /\ result = "true"
  /\ path = "existing"
  /\ nodeModulesDirExisted
  /\ preDir.nmPackageJson # Some(packageJsonContents(manifest))
  /\ dir.nmPackageJson = Some(packageJsonContents(manifest))
  /\ dir.packageJson = None

\* node_modules exists and its stamp (v0.8.24 when there is none) is not the
\* current compatibility version.
staleStamp(d) ==
  /\ d.kind = "dir"
  /\ d.nodeModules
  /\ (IF d.nmNodeVersion = None THEN DefaultOldNodeVersion ELSE d.nmNodeVersion[1])
       # currentNodeCompatibilityVersion

\* The checks of updateExistingNpmDirectory have just run on a directory that
\* had npm-shrinkwrap.json and a stale stamp.
afterStaleStampCleanup ==
  /\ nonEmptyCall
  /\ pc = "mkdir"
  /\ path = "existing"
  /\ staleStamp(preDir)

\* What lies outside node_modules is as it was before the call.
outsideNodeModulesUnchanged ==
  /\ dir.kind = preDir.kind
  /\ dir.shrinkwrap = preDir.shrinkwrap
  /\ dir.packageJson = preDir.packageJson
  /\ dir.readme = preDir.readme
  /\ dir.gitignore = preDir.gitignore
  /\ dir.stray = preDir.stray

\* C13 as stated: when the directory has its lock artifact and a stale stamp,
\* the cleanup before install deletes the installed packages only; the rest
\* of the directory, node_modules/.package.json and
\* node_modules/.npm-shrinkwrap.json included, is unchanged.
C13_StaleStampKeepsMarkers ==
  afterStaleStampCleanup
    => /\ dir.installed = << >>
       /\ outsideNodeModulesUnchanged
       /\ dir.nmPackageJson = preDir.nmPackageJson
       /\ dir.nmShrinkwrap = preDir.nmShrinkwrap

\* C13 as amended: that cleanup deletes node_modules whole, the two hidden
\* metadata copies and the stamp with it, and leaves everything outside
\* node_modules unchanged.
C13_StaleStampDeletesNodeModules ==
  afterStaleStampCleanup
    => /\ ~ dir.nodeModules
       /\ dir.installed = << >>
       /\ dir.colons = 0
       /\ dir.nmPackageJson = None
       /\ dir.nmShrinkwrap = None
       /\ dir.nmNodeVersion = None
       /\ ~ nodeModulesDirExisted
       /\ outsideNodeModulesUnchanged

C13_Witness ==
  /\ afterStaleStampCleanup
  /\ preDir.nmNodeVersion = Some(StaleStamp)
  /\ preDir.nmPackageJson # None
  /\ preDir.nmShrinkwrap # None
  /\ DOMAIN preDir.installed # {}
  /\ preDir.readme
  /\ dir.readme
  /\ dir.nmPackageJson = None
  /\ ~ dir.nodeModules

\* No module of a lock tree carries a dependencies field without entries.
RECURSIVE noEmptyDependencies(_)
noEmptyDependencies(module) ==
  Has(module, "dependencies") =>
    /\ Get(module, "dependencies") # << >>
    /\ \A i \in DOMAIN Get(module, "dependencies") :
         noEmptyDependencies(Get(module, "dependencies")[i][2])

\* C14: in the tree minimizeDependencyTree returns, a node below the top
\* level whose input has no sub-dependencies (dependencies absent or an empty
\* map) has no dependencies field; the field is there only with at least one
\* entry.
C14_NoEmptyDependenciesField ==
  \A i \in DOMAIN runLock :
    runLock[i] # None =>
      \A j \in DOMAIN Get(runLock[i][1], "dependencies") :
        noEmptyDependencies(Get(runLock[i][1], "dependencies")[j][2])

\* The modules under the root of a tree carry only version and dependencies.
lockTreeShaped(t) ==
  \A j \in DOMAIN Get(t, "dependencies") :
    /\ onlyLockKeys(Get(t, "dependencies")[j][2])
    /\ Has(Get(t, "dependencies")[j][2], "version")

\* C15: minimizeDependencyTree gives back a tree whose nodes carry only
\* version and optional dependencies as it is, so minimizing a minimized tree
\* changes nothing.
C15_MinimizeIdempotent ==
  \A i \in DOMAIN runLock :
    /\ (runLock[i] # None /\ lockTreeShaped(runTree[i]))
         => Get(runLock[i][1], "dependencies") = Get(runTree[i], "dependencies")
    /\ runRelock[i] # None => runRelock[i] = runLock[i]

C15_Witness ==
  /\ runRelock # << >>
  /\ runRelock[1] # None
  /\ runRelock[2] # None
  /\ lockTreeShaped(runTree[1])
  /\ Has(Get(runTree[1], "dependencies")[1][2], "dependencies")
  /\ Get(Get(runTree[1], "dependencies")[1][2], "dependencies") # << >>
  /\ Has(Get(runTree[2], "dependencies")[1][2], "resolved")
  /\ Has(Get(runTree[2], "dependencies")[1][2], "_id")
  /\ runRelock[2] = runLock[2]

\* The report for n paths with a colon: the first min(n, 10) of them, then
\* the count of the others when n > 10.
colonReport(n) ==
  LET shown == IF n < 10 THEN n ELSE 10
      listed == [i \in 1..shown |-> pathsWithColons(dir)[i]]
      omitted == IF n > 10
                   THEN << "... " \o ToString(n - 10) \o " paths omitted." >>
                   ELSE << >>
  IN  "Some filenames in your package have invalid characters.\n"
      \o "The following file paths have colons, ':', which won't work on Windows:\n"
      \o join(listed \o omitted)

\* C16: off win32, when n >= 1 paths under node_modules have a colon after a
\* successful install, the call returns false and the message lists the first
\* min(n, 10) paths, then the number n - 10 of omitted ones exactly when
\* n > 10; with n = 0, or on win32, the colon check never fails the call.
C16_ColonReport ==
  (pc = "done" /\ nonEmptyCall /\ "install" \in passed) =>
    IF platform # "win32" /\ dir.colons >= 1
      THEN /\ result = "false"
           /\ failedAt = "colons"
           /\ errors # << >>
           /\ errors[Len(errors)] = colonReport(dir.colons)
      ELSE failedAt # "colons"

C16_Witness ==
  /\ pc = "done"
  /\ nonEmptyCall
  /\ platform = "linux"
  /\ dir.colons = 12
  /\ failedAt = "colons"
  /\ result = "false"

\* Some entry at any depth of a listing has a name ending in .node.
RECURSIVE hasDotNode(_)
hasDotNode(listing) ==
  \E i \in DOMAIN listing :
    \/ matchesDotNode(listing[i].name)
    \/ listing[i].kind = "dir" /\ hasDotNode(listing[i].children)

\* The entries under a listing, depth first, each with whether its name ends
\* in .node.
RECURSIVE depthFirst(_, _)
depthFirst(listing, dirPath) ==
  IF listing = << >>
    THEN << >>
    ELSE LET item == dirPath \o "/" \o listing[1].name
         IN  << <<item, matchesDotNode(listing[1].name)>> >>
             \o (IF listing[1].kind = "dir"
                   THEN depthFirst(listing[1].children, item) ELSE << >>)
             \o depthFirst(Tail(listing), dirPath)

\* C17: dependenciesArePortable returns false exactly when some entry at any
\* depth under node_modules has a name ending in .node; the scan is depth
\* first and stops at the first such entry, looking at no entry after it.
C17_PortableIffNoDotNode ==
  scanResult # None =>
    LET order == depthFirst(scanDir, "node_modules")
        examined == scanResult[1].examined
    IN  /\ scanResult[1].portable = ~ hasDotNode(scanDir)
        /\ Len(examined) <= Len(order)
        /\ \A k \in DOMAIN examined :
             /\ examined[k] = order[k][1]
             /\ order[k][2] <=> (k = Len(examined) /\ ~ scanResult[1].portable)
        /\ scanResult[1].portable => Len(examined) = Len(order)

C17_Witness ==
  /\ scanResult # None
  /\ ~ scanResult[1].portable
  /\ Len(scanDir) = 2
  /\ scanDir[1].kind = "dir"
  /\ scanDir[1].name = "lib"
  /\ Len(scanDir[1].children) = 2
  /\ scanDir[1].children[2].name = "b.node"
  /\ Len(scanResult[1].examined) = 3

\* C18: in a call with a non-empty manifest the connectivity probe is made
\* exactly once, before any npm command; when it fails no npm command is run
\* in that call and the call returns false, without throwing.
C18_ProbeOnceBeforeCommands ==
  nonEmptyCall =>
    /\ probes <= 1
    /\ cmds # << >> => (probes = 1 /\ "connect" \in passed)
    /\ pc = "done" => probes = 1
    /\ failedAt = "connect" =>
         /\ cmds = << >>
         /\ pc = "done"
         /\ result = "false"

C18_Witness ==
  /\ nonEmptyCall
  /\ pc = "done"
  /\ failedAt = "connect"
  /\ probes = 1
  /\ cmds = << >>
  /\ result = "false"
  /\ preDir.kind = "dir"
  /\ DOMAIN preDir.installed # {}

\* C19: there is no retry: a call runs `npm install` at most once, and after
\* a failed `npm install` it runs no further npm command.
C19_NoRetry ==
  nonEmptyCall =>
    /\ Cardinality(invocations("install")) <= 1
    /\ failedAt = "install" =>
         /\ pc = "done"
         /\ result = "false"
         /\ invocations("install") = {Len(cmds)}
         /\ invocations("prune") = {}
         /\ invocations("dedupe") = {}
         /\ invocations("shrinkwrap") = {}

C19_Witness ==
  /\ nonEmptyCall
  /\ pc = "done"
  /\ failedAt = "install"
  /\ path = "existing"
  /\ nodeModulesDirExisted
  /\ Len(cmds) = 2
  /\ cmds[2][1] = "install"
  /\ Len(cmds[2]) > 1

\* A step of an empty-manifest call, or a crash during one, as a reader of
\* the real path and of the temporary one sees it.
emptyCallStep ==
  pc \in {"rename", "rmTemp"} =>
    /\ dir \in {preDir, AbsentDir}
    /\ dir' \in {dir, AbsentDir}
    /\ dir' # dir =>
         /\ pc = "rename"
         /\ tempPackageNpmDir'[1] \notin tempDirs
         /\ tempContents'[tempPackageNpmDir'[1]] = dir
    /\ pc = "rmTemp" => (dir' = dir /\ dir = AbsentDir)

\* C20: during an empty-manifest call, at every step and after a crash at
\* any step, a reader of the real path sees the whole directory as it was
\* before the call or no directory: the real path changes once, by a rename
\* that moves the directory whole under the temporary name, and what is
\* deleted piece by piece is under the temporary name.
C20_ReaderSeesAllOrNothing == [][emptyCallStep]_vars

C20_Witness ==
  /\ pc = "rmTemp"
  /\ dir = AbsentDir
  /\ preDir.kind = "dir"
  /\ DOMAIN preDir.installed # {}
  /\ tempContents[tempPackageNpmDir[1]] = rmNodeModules(preDir)

\* Before the call the directory had npm-shrinkwrap.json and a node_modules
\* that the stamp check and the hidden-metadata check leave in place.
nodeModulesSurvives(d) ==
  /\ existsShrinkwrap(d)
  /\ existsNodeModules(d)
  /\ ~ staleStamp(d)
  /\ d.nmPackageJson # None
  /\ d.nmShrinkwrap # None

\* prune and dedupe are run at most once each, after install and in that
\* order, and only in a call on the incremental path whose install succeeded.
cleanupInOrder ==
  /\ Cardinality(invocations("prune")) <= 1
  /\ Cardinality(invocations("dedupe")) <= 1
  /\ \A i \in invocations("install"), j \in invocations("prune") : i < j
  /\ \A i \in invocations("prune"), j \in invocations("dedupe") : i < j
  /\ invocations("dedupe") # {} => invocations("prune") # {}
  /\ invocations("prune") # {} =>
       /\ nodeModulesSurvives(preDir)
       /\ "install" \in passed
       /\ invocations("install") # {}

\* C21 as stated: prune and dedupe are run in a call exactly when it takes
\* the incremental path (node_modules existed and survived the checks) and
\* install succeeded; then once each, in the order install, prune, dedupe.
C21_CleanupIffIncremental ==
  nonEmptyCall =>
    /\ cleanupInOrder
    /\ pc = "done" =>
         /\ invocations("prune") # {}
              <=> (nodeModulesSurvives(preDir) /\ "install" \in passed)
         /\ invocations("dedupe") # {}
              <=> (nodeModulesSurvives(preDir) /\ "install" \in passed)

\* C21 as amended: they are run exactly when the call takes the incremental
\* path and installNpmModules returns, that is install succeeded and the
\* check for paths with a colon did not fail.
C21_CleanupIffIncrementalInstalled ==
  nonEmptyCall =>
    /\ cleanupInOrder
    /\ pc = "done" =>
         /\ invocations("prune") # {}
              <=> (nodeModulesSurvives(preDir) /\ "colons" \in passed)
         /\ invocations("dedupe") # {}
              <=> (nodeModulesSurvives(preDir) /\ "colons" \in passed)

C21_Witness ==
  /\ nonEmptyCall
  /\ pc = "done"
  /\ nodeModulesSurvives(preDir)
  /\ Len(cmds) = 5
  /\ cmds[2][1] = "install"
  /\ cmds[3] = <<"prune">>
  /\ cmds[4] = <<"dedupe">>
  /\ result = "true"

\* The call in progress has ended, after a probe and npm commands that all
\* succeeded, in a directory that only calls of updateDependencies have
\* touched.
endedWithAllCommandsSucceeding ==
  /\ nonEmptyCall
  /\ pc = "done"
  /\ tampers = 0
  /\ {"connect", "ls", "install"} \subseteq passed
  /\ failedAt # "shrinkwrap"
  /\ \A i \in DOMAIN errors : errors[i] \notin {"pruneResult", "dedupeResult"}

====
